---- MODULE Spec2Model ----
(***************************************************************************)
(* A model of pokemongo_bot/cell_workers/move_to_map_pokemon.py: the task  *)
(* MoveToMapPokemon, its Dedup Ledger (self.caught), its two feed filters, *)
(* the target ordering, the snipe protocol and the waypoint routing.       *)
(*                                                                         *)
(* Coordinates are integers in units of 1e-5 degree, so that the 4-decimal *)
(* formatting of is_inspected / inspect is a real rounding.  Distances are *)
(* integers in the same unit.  Time is in seconds, feed timestamps in ms.  *)
(***************************************************************************)
EXTENDS Integers, Sequences, FiniteSets, TLC

VARIABLES
    config,             \* self.config and self.bot.config (immutable per run)
    caught,             \* self.caught: the Dedup Ledger
    by_pass_times,      \* self.by_pass_times
    position,           \* self.bot.position[0:2]
    capture_locked,     \* self.bot.capture_locked (0 for False, or a pokemon_id)
    mqtt_pokemon_list,  \* self.bot.mqtt_pokemon_list: the push buffer
    data_file,          \* <base_dir>/data/map-caught-<user>.json (dump target)
    base_file,          \* <base_dir>/map-caught-<user>.json (read by initialize)
    world,              \* the sightings the map feed can report in this run
    tick,               \* the inputs and the outcome of the last handler call
    probe               \* argument and result of the last pure-function call

vars == <<config, caught, by_pass_times, position, capture_locked,
          mqtt_pokemon_list, data_file, base_file, world, tick, probe>>

----------------------------------------------------------------------------
(* Helpers on sequences and numbers.                                       *)

Abs(x) == IF x < 0 THEN -x ELSE x

Range(s) == {s[i] : i \in 1..Len(s)}

MapSeq(s, F(_)) == [i \in 1..Len(s) |-> F(s[i])]

RECURSIVE SeqsUpTo(_, _)
SeqsUpTo(S, n) ==
    IF n = 0 THEN {<<>>}
    ELSE LET shorter == SeqsUpTo(S, n - 1)
         IN  shorter \cup {Append(s, x) : s \in {t \in shorter : Len(t) = n - 1}, x \in S}

\* A file of the data directory: absent, or holding a JSON text.
NoFile == [exists |-> FALSE, text |-> <<>>]
FileOf(text) == [exists |-> TRUE, text |-> text]

----------------------------------------------------------------------------
(* Static data and collaborators that live outside this file.              *)

\* self.bot.pokemon_list: the species table, indexed by pokemon_id - 1.
pokemon_data == <<"Bulbasaur", "Ivysaur", "Venusaur", "Charmander", "Charmeleon">>

\* utils.distance(lat1, lon1, lat2, lon2): a planar metric on the grid.
distance(lat1, lon1, lat2, lon2) == Abs(lat1 - lat2) + Abs(lon1 - lon2)

\* Constants.MAX_DISTANCE_POKEMON_IS_REACHABLE, MAX_DISTANCE_FORT_IS_REACHABLE
MAX_DISTANCE_POKEMON_IS_REACHABLE == 38

MAX_DISTANCE_FORT_IS_REACHABLE == 38

\* WorkerResult
SUCCESS == "SUCCESS"
RUNNING == "RUNNING"
NoResult == "None"

\* One entry of the tick's trace of calls to collaborators.
Ev(name, a, b) == [ev |-> name, a |-> a, b |-> b]

----------------------------------------------------------------------------
(* The Dedup Ledger: is_inspected, inspect, and the 4-decimal key.         *)

\* "{0:.4f}".format(x): the sign character and the digits, x in 1e-5 units.
\* A negative x keeps its "-" even when the digits round to 0.0000.  Python
\* rounds the binary value to nearest; an exact decimal tie (last digit 5)
\* is not representable in general and is modelled as round-half-even.
Fmt4(x) ==
    LET m == Abs(x)
        q == m \div 10
        r == m % 10
        digits == IF r < 5 THEN q
                  ELSE IF r > 5 THEN q + 1
                  ELSE IF q % 2 = 0 THEN q ELSE q + 1
    IN  [neg |-> x < 0, digits |-> digits]

\* The comparison of lines 233 and 241.
SamePlace(pokemon, caught_pokemon) ==
    /\ Fmt4(pokemon.latitude) = Fmt4(caught_pokemon.latitude)
    /\ Fmt4(pokemon.longitude) = Fmt4(caught_pokemon.longitude)

is_inspected(ledger, pokemon) ==
    \E i \in 1..Len(ledger) : SamePlace(pokemon, ledger[i])

\* The capacity of the ledger.
CaughtCap == 200

\* inspect: the ledger after self.inspect(pokemon).
inspect(ledger, pokemon) ==
    IF is_inspected(ledger, pokemon) THEN ledger
    ELSE Append(IF Len(ledger) >= CaughtCap THEN Tail(ledger) ELSE ledger, pokemon)

\* What the ledger keeps of a target: the dict itself, with every key.
\* json.dump / json.load: a list of objects, each a set of key/value pairs.
json_dump(ledger) ==
    [i \in 1..Len(ledger) |-> {<<k, ledger[i][k]>> : k \in DOMAIN ledger[i]}]

json_load(text) ==
    [i \in 1..Len(text) |->
        [k \in {kv[1] : kv \in text[i]} |-> (CHOOSE kv \in text[i] : kv[1] = k)[2]]]

\* Lines 313-316: the file that dump_caught_pokemon rewrites.
dump_caught_pokemon(ledger) == FileOf(json_dump(ledger))

----------------------------------------------------------------------------
(* Configuration.  The allow-list with its priority weights and the VIP    *)
(* set are the same in every run; the switches vary from run to run.       *)

Catch == [n \in {"Bulbasaur", "Ivysaur", "Venusaur"} |->
            CASE n = "Bulbasaur" -> 5 [] n = "Ivysaur" -> 20 [] OTHER -> 1]

Vips == {"Venusaur", "Charmander"}

BaseConfig ==
    [enable_social |-> FALSE, snipe |-> FALSE, mode |-> "priority",
     prioritize_vips |-> FALSE, snipe_high_prio_only |-> FALSE,
     snipe_high_prio_threshold |-> 4, snipe_max_in_chain |-> 2,
     snipe_sleep_sec |-> 2, skip_rounds |-> 2, min_ball |-> 2,
     max_sniping_distance |-> 1000, max_walking_distance |-> 100,
     max_extra_dist_fort |-> 20, walk_min |-> 10, walk_max |-> 30,
     location |-> <<0, 0>>, catch |-> Catch, vips |-> Vips]

\* self.config['catch'].get(name, 0)
CatchGet(cfg, name) == IF name \in DOMAIN cfg.catch THEN cfg.catch[name] ELSE 0

\* (walk_max + walk_min) / 2
mean_walk_speed(cfg) == (cfg.walk_max + cfg.walk_min) \div 2

\* self.pokemon_data[pokemon_id - 1]['Name']; Python reads index -1 as the last.
SpeciesIndexOk(pokemon_id) ==
    /\ pokemon_id - 1 < Len(pokemon_data)
    /\ pokemon_id - 1 >= -Len(pokemon_data)

SpeciesName(pokemon_id) ==
    IF pokemon_id - 1 >= 0 THEN pokemon_data[pokemon_id]
    ELSE pokemon_data[Len(pokemon_data) + pokemon_id]

----------------------------------------------------------------------------
(* Candidate Filter, push mode: get_pokemon_from_social.                   *)

\* Lines 113-117, 130-137: the sighting with its derived keys.
social_candidate(cfg, pos, p) ==
    [pokemon_id |-> p.pokemon_id,
     latitude |-> p.latitude,
     longitude |-> p.longitude,
     encounter_id |-> p.encounter_id,
     spawn_point_id |-> p.spawn_point_id,
     expiration_timestamp_ms |-> p.expiration_timestamp_ms,
     disappear_time |-> p.expiration_timestamp_ms \div 1000,
     name |-> SpeciesName(p.pokemon_id),
     is_vip |-> SpeciesName(p.pokemon_id) \in cfg.vips,
     priority |-> CatchGet(cfg, SpeciesName(p.pokemon_id)),
     dist |-> distance(pos[1], pos[2], p.latitude, p.longitude)]

\* Push mode with the sniping toggle read as always on in the distance tests.
social_keeps_snipe_on(cfg, ledger, now, c) ==
    /\ c.name \in DOMAIN cfg.catch
    /\ ~is_inspected(ledger, c)
    /\ ~(c.dist > cfg.max_sniping_distance)

\* Lines 119-150: the sighting reaches pokemon_list.append.
social_keeps(cfg, ledger, now, c) ==
    /\ c.name \in DOMAIN cfg.catch
    /\ ~is_inspected(ledger, c)
    /\ ~(c.dist > cfg.max_sniping_distance)
    /\ ~(c.dist > cfg.max_walking_distance /\ ~cfg.snipe)
    /\ ~(c.dist > (c.disappear_time - now) * mean_walk_speed(cfg) /\ ~cfg.snipe)

\* The buffer left as it was by the call.
buffer_kept(buffer) == buffer

\* Lines 109-110: self.bot.mqtt_pokemon_list after the call.
buffer_after_drain(buffer) == <<>>

\* Lines 101-152: the list returned.
get_pokemon_from_social(cfg, ledger, pos, now, buffer) ==
    SelectSeq(MapSeq(buffer, LAMBDA p : social_candidate(cfg, pos, p)),
              LAMBDA c : social_keeps(cfg, ledger, now, c))

----------------------------------------------------------------------------
(* Candidate Filter, pull mode: get_pokemon_from_url.                      *)

ConnectionError == "ConnectionError"
ValueError == "ValueError"

\* long(base64.b64decode(s)) for the encounter ids the feed can carry; the
\* empty id "" is kept as 0 (both are falsy in the test of line 285).
B64Long == [s \in {"MTIz", "NDU2"} |-> IF s = "MTIz" THEN 123 ELSE 456]

\* Lines 171-183: the try block raises nothing for this item.
url_parses(p) ==
    /\ p.encounter_id = "" \/ p.encounter_id \in DOMAIN B64Long
    /\ SpeciesIndexOk(p.pokemon_id)

\* Lines 173-180, 195-201: the item with its derived keys.
url_candidate(cfg, pos, p) ==
    [pokemon_id |-> p.pokemon_id,
     latitude |-> p.latitude,
     longitude |-> p.longitude,
     encounter_id |-> IF p.encounter_id = "" THEN 0 ELSE B64Long[p.encounter_id],
     spawnpoint_id |-> p.spawnpoint_id,
     spawn_point_id |-> p.spawnpoint_id,
     disappear_time |-> p.disappear_time \div 1000,
     name |-> SpeciesName(p.pokemon_id),
     is_vip |-> SpeciesName(p.pokemon_id) \in cfg.vips,
     priority |-> CatchGet(cfg, SpeciesName(p.pokemon_id)),
     dist |-> distance(pos[1], pos[2], p.latitude, p.longitude)]

\* Pull mode without the ledger test.
url_keeps_noledger(cfg, ledger, time_now, c) ==
    /\ ~(c.name \notin DOMAIN cfg.catch /\ ~c.is_vip)
    /\ ~(c.dist > cfg.max_sniping_distance /\ cfg.snipe)
    /\ ~(c.dist > cfg.max_walking_distance /\ ~cfg.snipe)
    /\ ~(c.dist > (c.disappear_time - time_now) * mean_walk_speed(cfg) /\ ~cfg.snipe)

\* Lines 185-224: the item reaches pokemon_list.append.
url_keeps(cfg, ledger, time_now, c) ==
    /\ ~(c.name \notin DOMAIN cfg.catch /\ ~c.is_vip)
    /\ ~is_inspected(ledger, c)
    /\ ~(c.dist > cfg.max_sniping_distance /\ cfg.snipe)
    /\ ~(c.dist > cfg.max_walking_distance /\ ~cfg.snipe)
    /\ ~(c.dist > (c.disappear_time - time_now) * mean_walk_speed(cfg) /\ ~cfg.snipe)

\* What requests.get(...).json() gives: response.status is "ok" with the
\* 'pokemons' array, or the exception raised (lines 161-166).
\* The failure notifications of one call, in order.
url_failures(response) ==
    IF response.status = ConnectionError THEN <<Ev("fail_connection", 0, 0)>>
    ELSE IF response.status = ValueError THEN <<Ev("fail_json", 0, 0)>>
    ELSE MapSeq(SelectSeq(response.pokemons, LAMBDA p : ~url_parses(p)),
                LAMBDA p : Ev("fail_parse", p.latitude, p.longitude))

\* Lines 154-228 with the loop left at the first item that fails to parse.
get_pokemon_from_url_break(cfg, ledger, pos, time_now, response) ==
    IF response.status \in {ConnectionError, ValueError} THEN <<>>
    ELSE LET bad == {i \in 1..Len(response.pokemons) : ~url_parses(response.pokemons[i])}
             n == IF bad = {} THEN Len(response.pokemons)
                  ELSE (CHOOSE i \in bad : \A j \in bad : i <= j) - 1
         IN  SelectSeq(MapSeq(SubSeq(response.pokemons, 1, n),
                              LAMBDA p : url_candidate(cfg, pos, p)),
                       LAMBDA c : url_keeps(cfg, ledger, time_now, c))

\* Lines 154-228.
get_pokemon_from_url(cfg, ledger, pos, time_now, response) ==
    IF response.status \in {ConnectionError, ValueError} THEN <<>>
    ELSE SelectSeq(MapSeq(SelectSeq(response.pokemons, url_parses),
                          LAMBDA p : url_candidate(cfg, pos, p)),
                   LAMBDA c : url_keeps(cfg, ledger, time_now, c))

----------------------------------------------------------------------------
(* Target Selector: the two list.sort calls of work().                     *)

\* list.sort(key=..., reverse=True) is stable: an element goes after every
\* element already placed whose key is at least its own.
\* The sort keys of lines 347 and 349 (True sorts above False).
KeyOf(key, x) == IF key = "priority" THEN x.priority
                 ELSE IF x.is_vip THEN 1 ELSE 0

RECURSIVE InsertDesc(_, _, _)
InsertDesc(sorted, x, key) ==
    IF sorted = <<>> THEN <<x>>
    ELSE IF KeyOf(key, Head(sorted)) >= KeyOf(key, x)
         THEN <<Head(sorted)>> \o InsertDesc(Tail(sorted), x, key)
         ELSE <<x>> \o sorted

RECURSIVE SortDescFrom(_, _, _)
SortDescFrom(done, rest, key) ==
    IF rest = <<>> THEN done
    ELSE SortDescFrom(InsertDesc(done, Head(rest), key), Tail(rest), key)


\* Line 347: pokemon_list.sort(key=lambda x: x['priority'], reverse=True)
sort_by_priority(pokemon_list) == SortDescFrom(<<>>, pokemon_list, "priority")

\* Line 349: pokemon_list.sort(key=lambda x: x['is_vip'], reverse=True)
sort_by_vip(pokemon_list) == SortDescFrom(<<>>, pokemon_list, "is_vip")

\* The two sorts applied in the other order.
select_order_vip_first(cfg, pokemon_list) ==
    LET byVip == IF cfg.prioritize_vips THEN sort_by_vip(pokemon_list) ELSE pokemon_list
    IN  IF cfg.mode = "priority" THEN sort_by_priority(byVip) ELSE byVip

\* Lines 346-349.
select_order(cfg, pokemon_list) ==
    LET byPrio == IF cfg.mode = "priority" THEN sort_by_priority(pokemon_list)
                  ELSE pokemon_list
    IN  IF cfg.prioritize_vips THEN sort_by_vip(byPrio) ELSE byPrio

----------------------------------------------------------------------------
(* Waypoint routing: get_nearest_fort_on_the_way.                          *)

NoFort == [id |-> "None", latitude |-> 0, longitude |-> 0]

\* Line 552 for one fort, in integers: total < (1 + ratio / 100) * direct.
fort_on_the_way(cfg, pos, pokemon, fort) ==
    LET dist_self_to_fort == distance(pos[1], pos[2], fort.latitude, fort.longitude)
        dist_fort_to_pokemon == distance(pokemon.latitude, pokemon.longitude,
                                         fort.latitude, fort.longitude)
        total_dist == dist_self_to_fort + dist_fort_to_pokemon
        dist_self_to_pokemon == distance(pos[1], pos[2],
                                         pokemon.latitude, pokemon.longitude)
    IN  total_dist * 100 < (100 + cfg.max_extra_dist_fort) * dist_self_to_pokemon

\* The routing returning the last fort that remains.
get_farthest_fort_on_the_way(cfg, pos, forts, fort_timeouts, pokemon) ==
    LET open == SelectSeq(forts, LAMBDA f : f.id \notin fort_timeouts)
        kept == SelectSeq(open, LAMBDA f : fort_on_the_way(cfg, pos, pokemon, f))
    IN  IF Len(kept) > 0 THEN kept[Len(kept)] ELSE NoFort

\* Lines 537-560; forts is self.bot.get_forts(order_by_distance=True).
get_nearest_fort_on_the_way(cfg, pos, forts, fort_timeouts, pokemon) ==
    LET open == SelectSeq(forts, LAMBDA f : f.id \notin fort_timeouts)
        kept == SelectSeq(open, LAMBDA f : fort_on_the_way(cfg, pos, pokemon, f))
    IN  IF Len(kept) > 0 THEN kept[1] ELSE NoFort

----------------------------------------------------------------------------
(* The bot as the task sees it during one tick: b.position, b.caught,      *)
(* b.capture_locked, and b.events, the trace of the calls made so far.     *)

Log(b, e) == [b EXCEPT !.events = Append(@, e)]

\* self.bot.api.set_position(lat, lon, alt, teleporting); bot.position reads it.
set_position(b, lat, lon, teleporting) ==
    [Log(b, Ev(IF teleporting THEN "set_position_teleport" ELSE "set_position", lat, lon))
        EXCEPT !.position = <<lat, lon>>]

\* time.sleep(sec)
sleep(b, sec) == Log(b, Ev("sleep", sec, 0))

\* self.bot.heartbeat()
heartbeat(b) == Log(b, Ev("heartbeat", b.position[1], b.position[2]))

\* Lines 441-447.
teleport_to(b, pokemon) ==
    set_position(Log(b, Ev("emit_teleport_to", pokemon.latitude, pokemon.longitude)),
                 pokemon.latitude, pokemon.longitude, TRUE)

\* Lines 456-461: the event only.
teleport_back(b, last_position) ==
    Log(b, Ev("emit_teleport_back", last_position[1], last_position[2]))

\* Lines 449-454.
encountered(b, pokemon) ==
    Log(b, Ev("emit_encounter", pokemon.latitude, pokemon.longitude))

\* self.inspect(pokemon) on the bot record.
do_inspect(b, pokemon) ==
    [Log(b, Ev("inspect", pokemon.latitude, pokemon.longitude))
        EXCEPT !.caught = inspect(b.caught, pokemon)]

----------------------------------------------------------------------------
(* Relocation Protocol: snipe.                                             *)

\* Lines 271-274 reading the wild sightings only.
nearby_wild_only(nearby_stuff) == nearby_stuff.wild_pokemons

\* Lines 271-274: wild_pokemons then catchable_pokemons.
nearby_pokemons_of(nearby_stuff) ==
    nearby_stuff.wild_pokemons \o nearby_stuff.catchable_pokemons

\* Lines 278-279.
nearby_pokemon_id(nearby_pokemon) ==
    IF "pokemon_data" \in DOMAIN nearby_pokemon
    THEN nearby_pokemon.pokemon_data.pokemon_id
    ELSE nearby_pokemon.pokemon_id

\* Lines 277-289: whether some nearby sighting has the target's species id.
target_seen(nearby_pokemons, pokemon) ==
    \E i \in 1..Len(nearby_pokemons) :
        nearby_pokemon_id(nearby_pokemons[i]) = pokemon.pokemon_id

\* Lines 284-288: the target after the loop, ids filled from the first match.
backfilled(nearby_pokemons, pokemon) ==
    IF ~target_seen(nearby_pokemons, pokemon) THEN pokemon
    ELSE LET i == CHOOSE j \in 1..Len(nearby_pokemons) :
                    /\ nearby_pokemon_id(nearby_pokemons[j]) = pokemon.pokemon_id
                    /\ \A k \in 1..(j - 1) :
                          nearby_pokemon_id(nearby_pokemons[k]) # pokemon.pokemon_id
             n == nearby_pokemons[i]
         IN  IF pokemon.encounter_id = 0 \/ pokemon.spawnpoint_id = ""
             THEN [pokemon EXCEPT
                     !.encounter_id = n.encounter_id,
                     !.spawn_point_id = n.spawn_point_id,
                     !.disappear_time = IF "pokemon_data" \in DOMAIN n
                                        THEN n.last_modified_timestamp_ms
                                        ELSE n.expiration_timestamp_ms]
             ELSE pokemon

\* Lines 293-303 with the position left where the target is.
snipe_capture_norestore(cfg, b, pokemon, last_position) ==
    LET b1 == encountered(b, pokemon)
        b2 == Log(b1, Ev("create_encounter", b1.position[1], b1.position[2]))
        b3 == sleep(b2, cfg.snipe_sleep_sec)
        b4 == teleport_back(b3, last_position)
        b6 == sleep(b4, cfg.snipe_sleep_sec)
        b7 == heartbeat(b6)
        b8 == Log(b7, Ev("catch_work", b7.position[1], b7.position[2]))
    IN  [b |-> do_inspect(b8, pokemon), result |-> SUCCESS]

\* Lines 293-303 with the capture completed before the way back.
snipe_capture_catch_first(cfg, b, pokemon, last_position) ==
    LET b1 == encountered(b, pokemon)
        b2 == Log(b1, Ev("create_encounter", b1.position[1], b1.position[2]))
        b3 == sleep(b2, cfg.snipe_sleep_sec)
        b4 == Log(b3, Ev("catch_work", b3.position[1], b3.position[2]))
        b5 == teleport_back(b4, last_position)
        b6 == set_position(b5, last_position[1], last_position[2], FALSE)
        b7 == sleep(b6, cfg.snipe_sleep_sec)
        b8 == heartbeat(b7)
    IN  [b |-> do_inspect(b8, pokemon), result |-> SUCCESS]

\* Lines 293-303: the CAPTURE path.
snipe_capture(cfg, b, pokemon, last_position) ==
    LET b1 == encountered(b, pokemon)
        b2 == Log(b1, Ev("create_encounter", b1.position[1], b1.position[2]))
        b3 == sleep(b2, cfg.snipe_sleep_sec)
        b4 == teleport_back(b3, last_position)
        b5 == set_position(b4, last_position[1], last_position[2], FALSE)
        b6 == sleep(b5, cfg.snipe_sleep_sec)
        b7 == heartbeat(b6)
        b8 == Log(b7, Ev("catch_work", b7.position[1], b7.position[2]))
    IN  [b |-> do_inspect(b8, pokemon), result |-> SUCCESS]

\* Lines 305-311 reporting the miss as a tick still running.
snipe_abort_running(cfg, b, pokemon, last_position) ==
    LET b1 == Log(b, Ev("fail_gone", pokemon.latitude, pokemon.longitude))
        b2 == do_inspect(b1, pokemon)
        b3 == sleep(b2, cfg.snipe_sleep_sec)
        b4 == teleport_back(b3, last_position)
        b5 == set_position(b4, last_position[1], last_position[2], FALSE)
    IN  [b |-> sleep(b5, cfg.snipe_sleep_sec), result |-> RUNNING]

\* Lines 305-311 without the ledger entry of line 306.
snipe_abort_noinspect(cfg, b, pokemon, last_position) ==
    LET b1 == Log(b, Ev("fail_gone", pokemon.latitude, pokemon.longitude))
        b3 == sleep(b1, cfg.snipe_sleep_sec)
        b4 == teleport_back(b3, last_position)
        b5 == set_position(b4, last_position[1], last_position[2], FALSE)
    IN  [b |-> sleep(b5, cfg.snipe_sleep_sec), result |-> SUCCESS]

\* Lines 305-311: the ABORT path.
snipe_abort(cfg, b, pokemon, last_position) ==
    LET b1 == Log(b, Ev("fail_gone", pokemon.latitude, pokemon.longitude))
        b2 == do_inspect(b1, pokemon)
        b3 == sleep(b2, cfg.snipe_sleep_sec)
        b4 == teleport_back(b3, last_position)
        b5 == set_position(b4, last_position[1], last_position[2], FALSE)
    IN  [b |-> sleep(b5, cfg.snipe_sleep_sec), result |-> SUCCESS]

\* The trace entry of a return of snipe: where the trainer is then.
returned(r) ==
    [r EXCEPT !.b = Log(@, Ev("snipe_return_" \o r.result, r.b.position[1], r.b.position[2]))]

\* Lines 247-311.  nearby_stuff is what self.bot.get_meta_cell() answers.
snipe(cfg, b, pokemon, nearby_stuff) ==
    LET last_position == b.position
        b0 == Log(b, Ev("snipe_enter", b.position[1], b.position[2]))
        b1 == heartbeat(b0)
        b2 == teleport_to(b1, pokemon)
        b3 == sleep(b2, 2)
        verify == ~cfg.enable_social
        b4 == IF verify THEN sleep(Log(b3, Ev("get_meta_cell", b3.position[1],
                                              b3.position[2])), 2)
              ELSE b3
        exists == IF verify THEN target_seen(nearby_pokemons_of(nearby_stuff), pokemon)
                  ELSE cfg.enable_social
        target == IF verify THEN backfilled(nearby_pokemons_of(nearby_stuff), pokemon)
                  ELSE pokemon
    IN  returned(IF exists THEN snipe_capture(cfg, b4, target, last_position)
                 ELSE snipe_abort(cfg, b4, target, last_position))

----------------------------------------------------------------------------
(* The path walker (walker_factory / StepWalker): one step per tick.       *)

Clamp(x, m) == IF x > m THEN m ELSE IF x < -m THEN -m ELSE x

\* step(): arrives when the destination is within one step, else moves on.
walker_step(cfg, b, destLat, destLon) ==
    LET speed == cfg.walk_max
        lat == b.position[1]
        lon == b.position[2]
        dLat == Clamp(destLat - lat, speed)
        dLon == Clamp(destLon - lon, speed - Abs(dLat))
    IN  IF distance(lat, lon, destLat, destLon) <= speed
        THEN [b |-> set_position(Log(b, Ev("walker_step", destLat, destLon)),
                                 destLat, destLon, FALSE),
              arrived |-> TRUE]
        ELSE [b |-> set_position(Log(b, Ev("walker_step", destLat, destLon)),
                                 lat + dLat, lon + dLon, FALSE),
              arrived |-> FALSE]

----------------------------------------------------------------------------
(* work(): one tick.                                                       *)

\* What a tick leaves behind: the fields of the task and of the bot, the
\* ranked list, the value returned and the trace of calls.
Done(b, bpt, buffer, dfile, pokemon_list, result) ==
    [caught |-> b.caught, position |-> b.position,
     capture_locked |-> b.capture_locked, events |-> b.events,
     by_pass_times |-> bpt, mqtt_pokemon_list |-> buffer, data_file |-> dfile,
     pokemon_list |-> pokemon_list, result |-> result]

\* Lines 362-374: the loop of the high-priority-only mode.
RECURSIVE snipe_chain(_, _, _, _, _)
snipe_chain(cfg, b, rest, count, nearby_stuff) ==
    IF rest = <<>> THEN b
    ELSE IF cfg.snipe_high_prio_threshold < Head(rest).priority
    THEN LET r == snipe(cfg, b, Head(rest), nearby_stuff)
             c == count + 1
         IN  IF c >= cfg.snipe_max_in_chain THEN r.b
             ELSE snipe_chain(cfg,
                              IF c # 1 THEN sleep(r.b, cfg.snipe_sleep_sec * 5) ELSE r.b,
                              Tail(rest), c, nearby_stuff)
    ELSE snipe_chain(cfg, b, Tail(rest), count, nearby_stuff)

\* Lines 388-407: the Walking Dispatcher.
walk_to(cfg, b, pokemon, forts, fort_timeouts) ==
    LET nearest_fort == get_nearest_fort_on_the_way(cfg, b.position, forts,
                                                    fort_timeouts, pokemon)
    IN  IF pokemon.is_vip \/ nearest_fort = NoFort
        THEN LET b1 == [b EXCEPT !.capture_locked = pokemon.pokemon_id]
                 b2 == Log(b1, Ev("emit_move_towards", pokemon.latitude, pokemon.longitude))
                 w == walker_step(cfg, b2, pokemon.latitude, pokemon.longitude)
             IN  IF ~w.arrived
                 THEN IF pokemon.dist < MAX_DISTANCE_POKEMON_IS_REACHABLE
                      THEN LET b3 == encountered(w.b, pokemon)
                               b4 == [b3 EXCEPT !.capture_locked = 0]
                           IN  [b |-> do_inspect(b4, pokemon), result |-> SUCCESS]
                      ELSE [b |-> w.b, result |-> RUNNING]
                 ELSE [b |-> w.b, result |-> NoResult]
        ELSE LET dist == distance(b.position[1], b.position[2],
                                  nearest_fort.latitude, nearest_fort.longitude)
                 b1 == Log(b, Ev(IF dist > MAX_DISTANCE_FORT_IS_REACHABLE
                                 THEN "emit_through_fort" ELSE "emit_arrived_at_fort",
                                 nearest_fort.latitude, nearest_fort.longitude))
                 w == walker_step(cfg, b1, nearest_fort.latitude, nearest_fort.longitude)
             IN  IF ~w.arrived THEN [b |-> w.b, result |-> RUNNING]
                 ELSE [b |-> w.b, result |-> NoResult]

\* The gate off by one.
not_enough_balls_off_by_one(cfg, balls) ==
    balls[1] + balls[2] + balls[3] < cfg.min_ball - 1

\* Lines 320-325, 381-385: the inventory gate on the three counts
\* (pokeballs, greatballs, ultraballs).
not_enough_balls(cfg, balls) == balls[1] + balls[2] + balls[3] < cfg.min_ball

\* The bypass test letting the counter reach skip_rounds + 1.
bypassed_late(cfg, bpt) == bpt + 1 <= cfg.skip_rounds

\* Lines 333-334: the counter incremented, then compared with skip_rounds.
bypassed(cfg, bpt) == bpt + 1 < cfg.skip_rounds

\* Line 357: pokemon = pokemon_list[0].
chosen_target(pokemon_list) == pokemon_list[1]

\* Lines 352-407: the tick from the ranked list on.
work_on_list(cfg, b2, bpt2, buffer, dfile, pokemon_list, in) ==
    IF Len(pokemon_list) < 1
    THEN Done(b2, bpt2, buffer, dfile, pokemon_list, SUCCESS)
    ELSE IF cfg.snipe
    THEN IF cfg.snipe_high_prio_only
         THEN Done(snipe_chain(cfg, b2, pokemon_list, 0, in.nearby_stuff),
                   bpt2, buffer, dfile, pokemon_list, SUCCESS)
         ELSE \* line 377 is never reached
              Done(snipe(cfg, b2, chosen_target(pokemon_list), in.nearby_stuff).b,
                   bpt2, buffer, dfile, pokemon_list,
                   snipe(cfg, b2, chosen_target(pokemon_list), in.nearby_stuff).result)
    ELSE IF not_enough_balls(cfg, in.balls)      \* lines 381-386
    THEN Done(b2, bpt2, buffer, dfile, pokemon_list, SUCCESS)
    ELSE Done(walk_to(cfg, b2, chosen_target(pokemon_list), in.forts, in.fort_timeouts).b,
              bpt2, buffer, dfile, pokemon_list,
              walk_to(cfg, b2, chosen_target(pokemon_list), in.forts, in.fort_timeouts).result)

\* Lines 318-407.  s holds the fields read, in the answers of the collaborators:
\* in.balls (the three counts summed), in.response, in.nearby_stuff, in.forts,
\* in.fort_timeouts, in.now.
work(cfg, s, in) ==
    LET b0 == [position |-> s.position, caught |-> s.caught,
               capture_locked |-> s.capture_locked, events |-> <<>>]
        b1 == Log(b0, Ev("dump", Len(s.caught), 0))
        counted == cfg.enable_social /\ cfg.snipe
    IN  IF not_enough_balls(cfg, in.balls)
        THEN Done(b0, s.by_pass_times, s.mqtt_pokemon_list, s.data_file, <<>>, SUCCESS)
        ELSE IF counted /\ bypassed(cfg, s.by_pass_times)
        THEN Done(b1, s.by_pass_times + 1, s.mqtt_pokemon_list,
                  dump_caught_pokemon(s.caught), <<>>, SUCCESS)
        ELSE IF cfg.enable_social
        THEN work_on_list(cfg,
                Log(b1, Ev("mqtt_drain", Len(s.mqtt_pokemon_list), 0)),
                IF counted THEN 0 ELSE s.by_pass_times,
                buffer_after_drain(s.mqtt_pokemon_list),
                dump_caught_pokemon(s.caught),
                select_order(cfg, get_pokemon_from_social(cfg, s.caught, s.position,
                                                          in.now, s.mqtt_pokemon_list)),
                in)
        ELSE work_on_list(cfg,
                [Log(b1, Ev("http_get", 0, 0))
                    EXCEPT !.events = @ \o url_failures(in.response)],
                s.by_pass_times,
                s.mqtt_pokemon_list,
                dump_caught_pokemon(s.caught),
                select_order(cfg, get_pokemon_from_url(cfg, s.caught, s.position,
                                                       in.now, in.response)),
                in)

----------------------------------------------------------------------------
(* initialize(), and the files.                                            *)

\* Lines 94-98 read <base_dir>/map-caught-<user>.json; lines 314-316 write
\* <base_dir>/data/map-caught-<user>.json.  Of the two files, the one read.
ledger_file_read(dfile, bfile) == bfile

\* Lines 86, 94-98: self.caught after initialize.
initial_caught(dfile, bfile) ==
    LET f == ledger_file_read(dfile, bfile)
    IN  IF f.exists THEN json_load(f.text) ELSE <<>>

----------------------------------------------------------------------------
(* The environment of a run: the map feed, the surroundings, the forts.    *)

Home == <<0, 0>>
Now == {100}

\* The three ball counts the inventory can answer: too few, enough.
FewBalls == <<1, 0, 0>>
EnoughBalls == <<0, 1, 1>>

\* A raw sighting of the push feed (mqtt) and one of the pull feed (JSON).
RawPush(id, lat, lon, ms) ==
    [pokemon_id |-> id, latitude |-> lat, longitude |-> lon,
     expiration_timestamp_ms |-> ms, encounter_id |-> 123, spawn_point_id |-> "sp"]

RawPull(id, lat, lon, ms, enc) ==
    [pokemon_id |-> id, latitude |-> lat, longitude |-> lon,
     disappear_time |-> ms, encounter_id |-> enc,
     spawnpoint_id |-> IF enc = "" THEN "" ELSE "sp"]

Raw(cfg, id, lat, lon, ms, enc) ==
    IF cfg.enable_social THEN RawPush(id, lat, lon, ms)
    ELSE RawPull(id, lat, lon, ms, enc)

\* What get_meta_cell answers.
WildPokemon(id) ==
    [pokemon_data |-> [pokemon_id |-> id], encounter_id |-> 456,
     spawn_point_id |-> "sp2", last_modified_timestamp_ms |-> 1100000]

CatchablePokemon(id) ==
    [pokemon_id |-> id, encounter_id |-> 456,
     spawn_point_id |-> "sp2", expiration_timestamp_ms |-> 1100000]

NothingNearby == [wild_pokemons |-> <<>>, catchable_pokemons |-> <<>>]

Fort(id, lat, lon) == [id |-> id, latitude |-> lat, longitude |-> lon]

\* self.bot.get_forts(order_by_distance=True): nearest first, ties by id order
\* of the given list.
RECURSIVE forts_by_distance(_, _)
forts_by_distance(pos, forts) ==
    IF forts = <<>> THEN <<>>
    ELSE LET d(f) == distance(pos[1], pos[2], f.latitude, f.longitude)
             i == CHOOSE j \in 1..Len(forts) :
                    /\ \A k \in 1..Len(forts) : d(forts[j]) <= d(forts[k])
                    /\ \A k \in 1..(j - 1) : d(forts[k]) > d(forts[j])
         IN  <<forts[i]>> \o forts_by_distance(pos,
                 SubSeq(forts, 1, i - 1) \o SubSeq(forts, i + 1, Len(forts)))

\* The longest feed, the longest push buffer.
MaxFeed == 2
MaxBuffer == 2

\* The sightings of the main runs.  Sniping: two at one 4-decimal place, one
\* beyond the walking distance, one more.  Walking: one a single step away,
\* one a walk of several ticks away, one beyond the walking distance.
MainSightings(cfg) ==
    IF cfg.snipe
    THEN {Raw(cfg, 1, 20, 0, 1100000, ""),
          Raw(cfg, 2, 22, 0, 1100000, "MTIz"),
          Raw(cfg, 3, 0, 300, 1100000, "MTIz"),
          Raw(cfg, 2, 0, 65, 1100000, "NDU2")}
    ELSE {Raw(cfg, 1, 20, 0, 1100000, "MTIz"),
          Raw(cfg, 2, 0, 65, 1100000, "NDU2"),
          Raw(cfg, 3, 0, 300, 1100000, "MTIz")}

MainWorld(cfg) ==
    [sightings |-> MainSightings(cfg),
     nearbys |-> {NothingNearby,
                  [wild_pokemons |-> <<WildPokemon(1)>>,
                   catchable_pokemons |-> <<CatchablePokemon(3)>>]},
     fortlists |-> {<<>>, <<Fort("f1", 0, 30), Fort("f2", 30, 0)>>},
     timeouts |-> {{}, {"f1"}}]

\* The answers of the collaborators that one tick can read.
NoResponse == [status |-> "ok", pokemons |-> <<>>]

Responses(w) ==
    {[status |-> ConnectionError, pokemons |-> <<>>],
     [status |-> ValueError, pokemons |-> <<>>]}
    \cup {[status |-> "ok", pokemons |-> f] : f \in SeqsUpTo(w.sightings, MaxFeed)}

Input(balls, response, nearby_stuff, forts, fort_timeouts, now) ==
    [balls |-> balls, response |-> response, nearby_stuff |-> nearby_stuff,
     forts |-> forts, fort_timeouts |-> fort_timeouts, now |-> now]

Inputs(cfg, w, pos) ==
    {Input(FewBalls, NoResponse, NothingNearby, <<>>, {}, now) : now \in Now}
    \cup
    {Input(EnoughBalls, r, n, forts_by_distance(pos, fl), t, now) :
        r \in IF cfg.enable_social THEN {NoResponse} ELSE Responses(w),
        n \in IF cfg.snipe /\ ~cfg.enable_social THEN w.nearbys ELSE {NothingNearby},
        fl \in IF cfg.snipe THEN {<<>>} ELSE w.fortlists,
        t \in IF cfg.snipe THEN {{}} ELSE w.timeouts,
        now \in Now}

----------------------------------------------------------------------------
(* The state machine: initialize, work, the feed collaborator, restart.    *)

NoTick(op) ==
    [op |-> op, in |-> Input(<<0, 0, 0>>, NoResponse, NothingNearby, <<>>, {}, 0),
     pokemon_list |-> <<>>, result |-> NoResult, events |-> <<>>]

NoProbe == [fn |-> "none"]

Switches ==
    {[BaseConfig EXCEPT !.enable_social = so, !.snipe = sn,
                        !.snipe_high_prio_only = hp] :
        so \in BOOLEAN, sn \in BOOLEAN, hp \in BOOLEAN}

\* A run that snipes starts at one of two locations.
Configs ==
    {c \in Switches : c.snipe_high_prio_only => c.snipe}
    \cup {[c EXCEPT !.location = <<0, 10>>] : c \in {d \in Switches : d.snipe}}

\* The ledger files a run can start from: none, or one written by an earlier run.
StartFiles(cfg) ==
    {NoFile,
     FileOf(json_dump(<<IF cfg.enable_social
                        THEN social_candidate(cfg, Home, RawPush(1, 20, 0, 1100000))
                        ELSE url_candidate(cfg, Home, RawPull(1, 20, 0, 1100000, "MTIz"))>>))}

InitWith(cfgs) ==
    /\ config \in cfgs
    /\ world = MainWorld(config)
    /\ base_file \in StartFiles(config)
    /\ data_file = NoFile
    /\ caught = initial_caught(data_file, base_file)
    /\ by_pass_times = 0
    /\ position = config.location
    /\ capture_locked = 0
    /\ mqtt_pokemon_list = <<>>
    /\ tick = NoTick("initialize")
    /\ probe = NoProbe

Init == InitWith(Configs)

\* The scheduler calls work().
Work ==
    \E in \in Inputs(config, world, position) :
        LET s == [caught |-> caught, by_pass_times |-> by_pass_times,
                  position |-> position, capture_locked |-> capture_locked,
                  mqtt_pokemon_list |-> mqtt_pokemon_list, data_file |-> data_file]
        IN  \E o \in {work(config, s, in)} :
            /\ caught' = o.caught
            /\ by_pass_times' = o.by_pass_times
            /\ position' = o.position
            /\ capture_locked' = o.capture_locked
            /\ mqtt_pokemon_list' = o.mqtt_pokemon_list
            /\ data_file' = o.data_file
            /\ tick' = [op |-> "work", in |-> in, pokemon_list |-> o.pokemon_list,
                        result |-> o.result, events |-> o.events]
            /\ UNCHANGED <<config, base_file, world, probe>>

\* The mqtt collaborator queues one sighting.
MqttQueue ==
    /\ config.enable_social
    /\ Len(mqtt_pokemon_list) < MaxBuffer
    /\ \E p \in world.sightings :
          mqtt_pokemon_list' = Append(mqtt_pokemon_list, p)
    /\ tick' = NoTick("mqtt")
    /\ UNCHANGED <<config, caught, by_pass_times, position, capture_locked,
                   data_file, base_file, world, probe>>

\* The process is started again: a new bot, a new task, initialize().
Restart ==
    /\ tick.op = "work"
    /\ caught' = initial_caught(data_file, base_file)
    /\ by_pass_times' = 0
    /\ position' = config.location
    /\ capture_locked' = 0
    /\ mqtt_pokemon_list' = <<>>
    /\ tick' = NoTick("initialize")
    /\ UNCHANGED <<config, data_file, base_file, world, probe>>

Next == Work \/ MqttQueue \/ Restart

Spec == Init /\ [][Next]_vars

----------------------------------------------------------------------------
(* The Candidate Filter on its own: one call of the filter of the active   *)
(* mode, on a ledger, a position and a feed drawn from the sets below.     *)

\* Sightings of every kind: two at one 4-decimal place, one beyond the walking
\* distance, one beyond every sniping distance, a VIP off the allow-list, a
\* species neither listed nor VIP, one about to disappear, and (pull feed
\* only) an item whose species id is not in the table.
FilterSightings(cfg) ==
    {Raw(cfg, 1, 20, 0, 1100000, "MTIz"),
     Raw(cfg, 2, 22, 0, 1100000, ""),
     Raw(cfg, 3, 0, 300, 1100000, "MTIz"),
     Raw(cfg, 1, 0, 2000, 1100000, "MTIz"),
     Raw(cfg, 4, 0, 60, 1100000, "MTIz"),
     Raw(cfg, 5, 10, 10, 1100000, "MTIz"),
     Raw(cfg, 1, 40, 10, 101000, "MTIz")}
    \cup (IF cfg.enable_social THEN {}
          ELSE {Raw(cfg, Len(pokemon_data) + 1, 20, 0, 1100000, "MTIz")})

\* Two settings of the distances: the sniping distance above the walking
\* distance (the defaults' order), and below it.
FilterConfigs ==
    {[BaseConfig EXCEPT !.enable_social = so, !.snipe = sn,
                        !.max_sniping_distance = d[1], !.max_walking_distance = d[2]] :
        so \in BOOLEAN, sn \in BOOLEAN, d \in {<<1000, 100>>, <<250, 400>>}}

\* A ledger entry as a file of an earlier run holds it.
LedgerEntry(lat, lon) ==
    [pokemon_id |-> 1, name |-> "Bulbasaur", latitude |-> lat, longitude |-> lon]

FilterLedgers ==
    {<<>>,
     <<LedgerEntry(18, 0)>>,
     <<LedgerEntry(0, 302), LedgerEntry(24, 0), LedgerEntry(20, 10)>>}

FilterPositions == {Home, <<0, 250>>}

InitFilter ==
    /\ config \in FilterConfigs
    /\ world = [MainWorld(config) EXCEPT !.sightings = FilterSightings(config)]
    /\ caught \in FilterLedgers
    /\ position \in FilterPositions
    /\ \E feed \in SeqsUpTo(world.sightings, MaxFeed), now \in Now :
          /\ mqtt_pokemon_list = IF config.enable_social THEN feed ELSE <<>>
          /\ probe = [fn |-> "filter", feed |-> feed, now |-> now,
                      out |-> <<>>, done |-> FALSE]
    /\ base_file = NoFile
    /\ data_file = NoFile
    /\ by_pass_times = 0
    /\ capture_locked = 0
    /\ tick = NoTick("probe")

\* Lines 101-152 called once.
FilterPush ==
    /\ probe.fn = "filter" /\ ~probe.done /\ config.enable_social
    /\ probe' = [probe EXCEPT
                   !.out = get_pokemon_from_social(config, caught, position, probe.now,
                                                   mqtt_pokemon_list),
                   !.done = TRUE]
    /\ mqtt_pokemon_list' = <<>>
    /\ UNCHANGED <<config, caught, by_pass_times, position, capture_locked,
                   data_file, base_file, world, tick>>

\* Lines 154-228 called once, the GET answering with the feed.
FilterPull ==
    /\ probe.fn = "filter" /\ ~probe.done /\ ~config.enable_social
    /\ probe' = [probe EXCEPT
                   !.out = get_pokemon_from_url(config, caught, position, probe.now,
                               [status |-> "ok", pokemons |-> probe.feed]),
                   !.done = TRUE]
    /\ UNCHANGED <<config, caught, by_pass_times, position, capture_locked,
                   mqtt_pokemon_list, data_file, base_file, world, tick>>

NextFilter == FilterPush \/ FilterPull

SpecFilter == InitFilter /\ [][NextFilter]_vars

----------------------------------------------------------------------------
(* Reading the trace of a tick.                                            *)

IsReturn(e) == e.ev \in {"snipe_return_" \o SUCCESS, "snipe_return_" \o RUNNING,
                         "snipe_return_" \o NoResult}

IsSetPosition(e) == e.ev \in {"set_position", "set_position_teleport"}

Has(events, name) == \E i \in 1..Len(events) : events[i].ev = name

\* The entry of the snipe that returns at i.
EnterOf(events, i) ==
    CHOOSE j \in 1..i :
        /\ events[j].ev = "snipe_enter"
        /\ \A k \in (j + 1)..i : events[k].ev # "snipe_enter"

\* The last position set before i.
LastSetBefore(events, i) ==
    CHOOSE k \in 1..i :
        /\ IsSetPosition(events[k])
        /\ \A m \in (k + 1)..i : ~IsSetPosition(events[m])

Ticked == tick.op = "work"

----------------------------------------------------------------------------
(* Claims.                                                                 *)

\* C1: every run of snipe, on the CAPTURE path and on the ABORT path alike,
\* relocates the trainer and returns with the trainer at the position it had
\* on entry (the BACKUP value): the last position set before the return is
\* the backup, set without the teleport flag, and it is the position the bot
\* is left at.
C1_SnipeRestoresPosition ==
    Ticked =>
        \A i \in 1..Len(tick.events) :
            IsReturn(tick.events[i]) =>
                LET j == EnterOf(tick.events, i)
                    k == LastSetBefore(tick.events, i)
                    backup == <<tick.events[j].a, tick.events[j].b>>
                IN  /\ \E t \in j..i : tick.events[t].ev = "set_position_teleport"
                    /\ tick.events[k].ev = "set_position"
                    /\ <<tick.events[k].a, tick.events[k].b>> = backup
                    /\ <<tick.events[i].a, tick.events[i].b>> = backup
                    /\ position = backup

\* A tick that ran both paths, from a start that is not the origin.
C1_Witness ==
    /\ Ticked
    /\ Has(tick.events, "create_encounter")
    /\ Has(tick.events, "fail_gone")
    /\ position = <<0, 10>>

\* C2: every run of snipe returns SUCCESS, on the CAPTURE path and on the
\* ABORT path; the tick that runs it returns SUCCESS too.
C2_SnipeReportsSuccess ==
    Ticked =>
        /\ \A i \in 1..Len(tick.events) :
              IsReturn(tick.events[i]) => tick.events[i].ev = "snipe_return_" \o SUCCESS
        /\ \A i \in 1..Len(tick.events) :
              tick.events[i].ev = "snipe_enter" =>
                 \E j \in (i + 1)..Len(tick.events) : IsReturn(tick.events[j])
        /\ Has(tick.events, "snipe_enter") => tick.result = SUCCESS

\* A tick whose single snipe found the target gone.
C2_Witness ==
    /\ Ticked
    /\ ~config.snipe_high_prio_only
    /\ Has(tick.events, "fail_gone")
    /\ ~Has(tick.events, "create_encounter")
    /\ tick.result = SUCCESS

\* C8: a tick whose three ball counts sum to less than min_ball returns
\* SUCCESS, calls no collaborator (no dump, no drain of the push buffer, no
\* HTTP GET, no relocation, no walker step) and leaves the ledger, the bypass
\* counter, the push buffer, the position, the lock and the file unchanged.
C8_FewBallsNoOp ==
    [][(tick'.op = "work"
        /\ tick'.in.balls[1] + tick'.in.balls[2] + tick'.in.balls[3] < config.min_ball)
       => (/\ tick'.result = SUCCESS
           /\ tick'.events = <<>>
           /\ UNCHANGED <<caught, by_pass_times, mqtt_pokemon_list, position,
                          capture_locked, data_file>>)]_vars

\* Such a tick with sightings waiting in the push buffer, a round already
\* bypassed and a ledger that is not empty.
C8_Witness ==
    /\ Ticked
    /\ tick.in.balls[1] + tick.in.balls[2] + tick.in.balls[3] < config.min_ball
    /\ mqtt_pokemon_list # <<>>
    /\ by_pass_times > 0
    /\ caught # <<>>

\* C9: after a restart the ledger is the list of the last dump, entry for
\* entry, so that what the last dump held is still matched by is_inspected.
C9_RestartRestoresDump ==
    [][(tick'.op = "initialize" /\ data_file.exists)
       => (/\ caught' = json_load(data_file.text)
           /\ \A i \in 1..Len(data_file.text) :
                 is_inspected(caught', json_load(data_file.text)[i]))]_vars

----------------------------------------------------------------------------
(* The task started on a ledger file that is nearly full, full, or longer  *)
(* than the capacity.  initialize (lines 94-98) takes the file's list as   *)
(* it is; the file it reads is one the task never writes.                  *)

SeedLedger(n) == [i \in 1..n |-> LedgerEntry(100 + 10 * i, 0)]

LedgerFiles ==
    {FileOf(json_dump(SeedLedger(n))) : n \in {CaughtCap - 1, CaughtCap, CaughtCap + 1}}

LedgerConfigs ==
    {c \in Configs : /\ c.enable_social /\ c.snipe /\ ~c.snipe_high_prio_only
                     /\ c.location = Home}

\* One sighting at a new position, one at the position of the first entry.
LedgerWorld(cfg) ==
    [sightings |-> {Raw(cfg, 1, 20, 0, 1100000, ""), Raw(cfg, 2, 110, 0, 1100000, "")},
     nearbys |-> {NothingNearby},
     fortlists |-> {<<>>},
     timeouts |-> {{}}]

InitLedger ==
    /\ config \in LedgerConfigs
    /\ world = LedgerWorld(config)
    /\ base_file \in LedgerFiles
    /\ data_file = NoFile
    /\ caught = initial_caught(data_file, base_file)
    /\ by_pass_times = 0
    /\ position = config.location
    /\ capture_locked = 0
    /\ mqtt_pokemon_list = <<>>
    /\ tick = NoTick("initialize")
    /\ probe = NoProbe

SpecLedger == InitLedger /\ [][Next]_vars

----------------------------------------------------------------------------
(* The Target Selector alone: lines 346-357 applied to one eligible list.  *)

\* The longest eligible list.
MaxSelect == 3

SelectConfigs ==
    {[BaseConfig EXCEPT !.mode = m, !.prioritize_vips = pv] :
        m \in {"priority", "distance"}, pv \in BOOLEAN}

\* Eligible candidates as the pull filter builds them: two Bulbasaur
\* (priority 5), an Ivysaur (20), two Venusaur (1, VIP), a Charmander (0, VIP).
SelectCandidates(cfg) ==
    {url_candidate(cfg, Home, RawPull(1, 10, 0, 1100000, "MTIz")),
     url_candidate(cfg, Home, RawPull(1, 0, 10, 1100000, "MTIz")),
     url_candidate(cfg, Home, RawPull(2, 20, 0, 1100000, "MTIz")),
     url_candidate(cfg, Home, RawPull(3, 30, 0, 1100000, "MTIz")),
     url_candidate(cfg, Home, RawPull(3, 0, 30, 1100000, "MTIz")),
     url_candidate(cfg, Home, RawPull(4, 0, 40, 1100000, "MTIz"))}

InitSelect ==
    /\ config \in SelectConfigs
    /\ world = MainWorld(config)
    /\ \E l \in SeqsUpTo(SelectCandidates(config), MaxSelect) :
          probe = [fn |-> "select", list |-> l, out |-> <<>>, target |-> <<>>,
                   done |-> FALSE]
    /\ caught = <<>>
    /\ position = Home
    /\ mqtt_pokemon_list = <<>>
    /\ base_file = NoFile
    /\ data_file = NoFile
    /\ by_pass_times = 0
    /\ capture_locked = 0
    /\ tick = NoTick("probe")

\* Lines 346-357: the sorts, the return on an empty list, the head.
Select ==
    /\ probe.fn = "select" /\ ~probe.done
    /\ \E o \in {select_order(config, probe.list)} :
          probe' = [probe EXCEPT
                      !.out = o,
                      !.target = IF Len(o) < 1 THEN <<>> ELSE <<chosen_target(o)>>,
                      !.done = TRUE]
    /\ UNCHANGED <<config, caught, by_pass_times, position, capture_locked,
                   mqtt_pokemon_list, data_file, base_file, world, tick>>

NextSelect == Select

SpecSelect == InitSelect /\ [][NextSelect]_vars

----------------------------------------------------------------------------
(* Waypoint routing alone: get_nearest_fort_on_the_way called once.        *)

\* The longest list of forts.
MaxForts == 2

\* The target is at 50 or at 40 from Home.  From Home to the fort and on to
\* the target at (0, 50): a 50, b 50, c 60 (the bound at 20 percent),
\* d 90, e 50.
RouteForts ==
    {Fort("a", 0, 10), Fort("b", 0, 30), Fort("c", 5, 25), Fort("d", 20, 20),
     Fort("e", 0, 45)}

RouteTimeouts == {{}, {"a"}, {"a", "b"}, {"c"}}

RouteTargets(cfg) ==
    {url_candidate(cfg, Home, RawPull(1, 0, 50, 1100000, "MTIz")),
     url_candidate(cfg, Home, RawPull(1, 40, 0, 1100000, "MTIz"))}

RouteConfigs ==
    {[BaseConfig EXCEPT !.max_extra_dist_fort = r] : r \in {0, 20}}

InitRoute ==
    /\ config \in RouteConfigs
    /\ world = MainWorld(config)
    /\ position = Home
    /\ \E l \in SeqsUpTo(RouteForts, MaxForts), t \in RouteTimeouts,
          p \in RouteTargets(config) :
          probe = [fn |-> "route", forts |-> forts_by_distance(position, l),
                   fort_timeouts |-> t, pokemon |-> p, out |-> NoFort,
                   done |-> FALSE]
    /\ caught = <<>>
    /\ mqtt_pokemon_list = <<>>
    /\ base_file = NoFile
    /\ data_file = NoFile
    /\ by_pass_times = 0
    /\ capture_locked = 0
    /\ tick = NoTick("probe")

\* Lines 537-560 called once.
Route ==
    /\ probe.fn = "route" /\ ~probe.done
    /\ probe' = [probe EXCEPT
                   !.out = get_nearest_fort_on_the_way(config, position, probe.forts,
                               probe.fort_timeouts, probe.pokemon),
                   !.done = TRUE]
    /\ UNCHANGED <<config, caught, by_pass_times, position, capture_locked,
                   mqtt_pokemon_list, data_file, base_file, world, tick>>

NextRoute == Route

SpecRoute == InitRoute /\ [][NextRoute]_vars

----------------------------------------------------------------------------
(* Claims on the Candidate Filter (checked under SpecFilter).              *)

Filtered == probe.fn = "filter" /\ probe.done

\* The item is read without an exception (the push feed raises none here).
Parsed(p) == config.enable_social \/ url_parses(p)

\* The sighting is in the filter's output.
Kept(p) ==
    \E i \in 1..Len(probe.out) :
        /\ probe.out[i].latitude = p.latitude
        /\ probe.out[i].longitude = p.longitude
        /\ probe.out[i].pokemon_id = p.pokemon_id

DistOf(p) == distance(position[1], position[2], p.latitude, p.longitude)

\* C3: in both feed modes, a sighting whose latitude and longitude, formatted
\* to 4 decimals, equal those of a ledger entry is not in the filter's output,
\* whatever its species, priority, VIP flag or distance.
C3_LedgerSuppresses ==
    Filtered =>
        \A k \in 1..Len(probe.feed) :
            (\E e \in 1..Len(caught) :
                /\ Fmt4(probe.feed[k].latitude) = Fmt4(caught[e].latitude)
                /\ Fmt4(probe.feed[k].longitude) = Fmt4(caught[e].longitude))
            => ~Kept(probe.feed[k])

\* An allow-listed sighting in reach at 0.00022, a ledger entry at 0.00018:
\* equal only after rounding.
C3_Witness ==
    /\ Filtered
    /\ position = Home
    /\ caught = <<LedgerEntry(18, 0)>>
    /\ \E k \in 1..Len(probe.feed) :
          /\ probe.feed[k].pokemon_id = 2
          /\ probe.feed[k].latitude = 22
          /\ probe.feed[k].longitude = 0

\* C5: in both feed modes and with the sniping toggle on or off, a sighting
\* farther than max_sniping_distance is not in the filter's output.
C5_BeyondSnipingExcluded ==
    Filtered =>
        \A k \in 1..Len(probe.feed) :
            DistOf(probe.feed[k]) > config.max_sniping_distance
            => ~Kept(probe.feed[k])

\* C6: in both feed modes, an allow-listed sighting that is not in the ledger,
\* farther than max_walking_distance and not farther than
\* max_sniping_distance, is in the filter's output exactly when sniping is
\* enabled.
C6_WalkingDistanceOnlyWhenNotSniping ==
    Filtered =>
        \A k \in 1..Len(probe.feed) :
            (/\ Parsed(probe.feed[k])
             /\ SpeciesName(probe.feed[k].pokemon_id) \in DOMAIN config.catch
             /\ ~is_inspected(caught, probe.feed[k])
             /\ DistOf(probe.feed[k]) > config.max_walking_distance
             /\ DistOf(probe.feed[k]) <= config.max_sniping_distance)
            => (Kept(probe.feed[k]) <=> config.snipe)

\* Such a sighting kept by the pull filter with sniping enabled.
C6_Witness ==
    /\ Filtered
    /\ config.snipe /\ ~config.enable_social
    /\ \E k \in 1..Len(probe.feed) :
          /\ Parsed(probe.feed[k])
          /\ SpeciesName(probe.feed[k].pokemon_id) \in DOMAIN config.catch
          /\ ~is_inspected(caught, probe.feed[k])
          /\ DistOf(probe.feed[k]) > config.max_walking_distance
          /\ DistOf(probe.feed[k]) <= config.max_sniping_distance
          /\ Kept(probe.feed[k])

----------------------------------------------------------------------------
(* Claims on the Dedup Ledger (checked under SpecLedger).                  *)

\* C4: in every reachable state, right after initialize has loaded the ledger
\* from its file included, the ledger holds at most 200 entries.
C4_LedgerAtMost200 == Len(caught) <= CaughtCap

----------------------------------------------------------------------------
(* Claims on the Target Selector (checked under SpecSelect).               *)

Selected == probe.fn = "select" /\ probe.done

Bijections(n) ==
    {f \in [1..n -> 1..n] : \A i, j \in 1..n : f[i] = f[j] => i = j}

\* x goes before y: VIP before non-VIP when byVip, then higher priority.
GoesBefore(byVip, x, y) ==
    \/ byVip /\ x.is_vip /\ ~y.is_vip
    \/ /\ byVip => (x.is_vip <=> y.is_vip)
       /\ x.priority > y.priority

\* x and y are not told apart by the order.
SameRank(byVip, x, y) ==
    /\ byVip => (x.is_vip <=> y.is_vip)
    /\ x.priority = y.priority

\* out holds the elements of list, ordered by GoesBefore, the elements of the
\* same rank in the order they have in list.
StablyRanked(byVip, list, out) ==
    /\ Len(out) = Len(list)
    /\ \E f \in Bijections(Len(list)) :
          /\ \A i \in 1..Len(out) : out[i] = list[f[i]]
          /\ \A i, j \in 1..Len(out) :
                i < j => \/ GoesBefore(byVip, out[i], out[j])
                         \/ SameRank(byVip, out[i], out[j]) /\ f[i] < f[j]

PrioritiesOf(list) == [i \in 1..Len(list) |-> list[i].priority]

\* C7: with mode "priority" the list is stable-sorted by descending priority
\* (priorities [5, 20, 1] give [20, 5, 1]); with VIP-prioritization also on,
\* every VIP precedes every non-VIP and each group keeps descending priority
\* order; the chosen target is the head of the resulting list.
C7_SelectorOrder ==
    Selected /\ config.mode = "priority" =>
        /\ StablyRanked(config.prioritize_vips, probe.list, probe.out)
        /\ (~config.prioritize_vips /\ PrioritiesOf(probe.list) = <<5, 20, 1>>)
              => PrioritiesOf(probe.out) = <<20, 5, 1>>
        /\ config.prioritize_vips =>
              \A i, j \in 1..Len(probe.out) :
                  probe.out[i].is_vip /\ ~probe.out[j].is_vip => i < j
        /\ probe.out # <<>> => probe.target = <<probe.out[1]>>

\* Priorities [20, 5, 1], the last one a VIP, ranked with both sorts: the VIP
\* of priority 1 is the target, 20 and 5 follow.
C7_Witness ==
    /\ Selected
    /\ config.mode = "priority" /\ config.prioritize_vips
    /\ PrioritiesOf(probe.list) = <<5, 20, 1>>
    /\ PrioritiesOf(probe.out) = <<1, 20, 5>>
    /\ probe.target = <<probe.out[1]>>
    /\ probe.target[1].is_vip

----------------------------------------------------------------------------
(* Claims on waypoint routing (checked under SpecRoute).                   *)

Routed == probe.fn = "route" /\ probe.done

RoundTrip(f) ==
    distance(position[1], position[2], f.latitude, f.longitude)
    + distance(probe.pokemon.latitude, probe.pokemon.longitude, f.latitude, f.longitude)

Direct ==
    distance(position[1], position[2], probe.pokemon.latitude, probe.pokemon.longitude)

\* round trip <= (1 + overheadPct / 100) * direct
WithinBound(f) == RoundTrip(f) * 100 <= (100 + config.max_extra_dist_fort) * Direct

\* round trip < (1 + overheadPct / 100) * direct
BelowBound(f) == RoundTrip(f) * 100 < (100 + config.max_extra_dist_fort) * Direct

\* The first fort of the nearest-first list that is not timed out and
\* satisfies Ok is returned; none is returned exactly when there is no such
\* fort; a timed-out fort is never returned.
RoutesToFirst(Ok(_)) ==
    LET eligible == {i \in 1..Len(probe.forts) :
                        /\ probe.forts[i].id \notin probe.fort_timeouts
                        /\ Ok(probe.forts[i])}
    IN  /\ eligible = {} <=> probe.out = NoFort
        /\ eligible # {} =>
              \E i \in eligible : /\ \A k \in eligible : i <= k
                                  /\ probe.out = probe.forts[i]
        /\ probe.out.id \notin probe.fort_timeouts

\* C10 as stated: the nearest waypoint not timed out whose round trip is
\* <= (1 + overheadPct/100) x direct is returned, a waypoint whose round trip
\* equals the bound included; none exactly when no waypoint satisfies the
\* bound; a timed-out waypoint is never returned.
C10_NearestWithinBound == Routed => RoutesToFirst(WithinBound)

\* C10 amended: the same with a round trip strictly below the bound; a
\* waypoint whose round trip equals the bound is not returned.
C10_NearestBelowBound ==
    Routed =>
        /\ RoutesToFirst(BelowBound)
        /\ probe.out # NoFort => RoundTrip(probe.out) * 100
                                   # (100 + config.max_extra_dist_fort) * Direct

\* The only open fort is c, whose round trip of 60 equals 1.2 x 50: none is
\* returned.
C10_Witness ==
    /\ Routed
    /\ config.max_extra_dist_fort = 20
    /\ Direct = 50
    /\ \E i \in 1..Len(probe.forts) :
          /\ probe.forts[i].id \notin probe.fort_timeouts
          /\ RoundTrip(probe.forts[i]) = 60
    /\ probe.out = NoFort

----------------------------------------------------------------------------
(* Runs in push mode with sniping, for skip_rounds 1, 2 and 3.             *)

RateConfigs ==
    {[c EXCEPT !.skip_rounds = n] :
        c \in {d \in Configs : /\ d.enable_social /\ d.snipe
                               /\ ~d.snipe_high_prio_only /\ d.location = Home},
        n \in {1, 2, 3}}

InitRate == InitWith(RateConfigs)

SpecRate == InitRate /\ [][Next]_vars

\* The step is a tick of work() that passes the inventory gate of line 325.
GatePassed ==
    /\ tick'.op = "work"
    /\ tick'.in.balls[1] + tick'.in.balls[2] + tick'.in.balls[3] >= config.min_ball

\* C11: in push mode with sniping, a tick that passes the inventory gate
\* counts one more pass; while the count is below skip_rounds the tick keeps
\* the count, returns SUCCESS and neither drains the buffer, nor relocates,
\* nor changes the ledger; on the tick where the count reaches skip_rounds
\* the counter is reset to 0 and the buffer is drained, and only such a tick
\* runs the Relocation Protocol.
C11_RateLimited ==
    [][(GatePassed /\ config.enable_social /\ config.snipe) =>
          IF by_pass_times + 1 < config.skip_rounds
          THEN /\ by_pass_times' = by_pass_times + 1
               /\ tick'.result = SUCCESS
               /\ mqtt_pokemon_list' = mqtt_pokemon_list
               /\ caught' = caught
               /\ position' = position
               /\ ~Has(tick'.events, "mqtt_drain")
               /\ ~Has(tick'.events, "snipe_enter")
               /\ ~Has(tick'.events, "set_position_teleport")
          ELSE /\ by_pass_times + 1 = config.skip_rounds
               /\ by_pass_times' = 0
               /\ Has(tick'.events, "mqtt_drain")
               /\ mqtt_pokemon_list' = <<>>]_vars

\* With skip_rounds 3: a skipped tick that left the count at 2 with a
\* sighting waiting in the buffer.
C11_Witness ==
    /\ Ticked
    /\ config.skip_rounds = 3
    /\ by_pass_times = 2
    /\ mqtt_pokemon_list # <<>>
    /\ tick.result = SUCCESS
    /\ ~Has(tick.events, "mqtt_drain")

----------------------------------------------------------------------------
(* Runs in high-priority-only mode, for snipe_max_in_chain 0, 1, 2 and 3.  *)

ChainConfigs ==
    {[c EXCEPT !.snipe_max_in_chain = n] :
        c \in {d \in Configs : d.snipe_high_prio_only /\ d.location = Home},
        n \in {0, 1, 2, 3}}

InitChain == InitWith(ChainConfigs)

SpecChain == InitChain /\ [][Next]_vars

\* The ticks of the high-priority-only mode.
ChainTicked == Ticked /\ config.snipe /\ config.snipe_high_prio_only

\* The positions the tick teleported to, in order.
Teleports(events) == SelectSeq(events, LAMBDA e : e.ev = "emit_teleport_to")

\* The candidates of the ranked list above the threshold, in order.
AboveThreshold(list) ==
    SelectSeq(list, LAMBDA c : c.priority > config.snipe_high_prio_threshold)

\* C12: in high-priority-only mode a tick runs the Relocation Protocol for
\* the candidates whose priority is strictly greater than the threshold, in
\* the order of the ranked list, never for a candidate at or below the
\* threshold, and at most snipe_max_in_chain times (0 and 1 included); the
\* tick returns SUCCESS.
C12_ChainBounded ==
    ChainTicked =>
        LET sniped == Teleports(tick.events)
            above == AboveThreshold(tick.pokemon_list)
        IN  /\ Len(sniped) <= config.snipe_max_in_chain
            /\ Len(sniped) <= Len(above)
            /\ \A i \in 1..Len(sniped) :
                  /\ i <= Len(above)
                  /\ sniped[i].a = above[i].latitude
                  /\ sniped[i].b = above[i].longitude
            /\ Len(sniped) < config.snipe_max_in_chain => Len(sniped) = Len(above)
            /\ tick.result = SUCCESS

\* The inter-attempt delay of line 374.
IsChainDelay(e) == e.ev = "sleep" /\ e.a = config.snipe_sleep_sec * 5

\* C15: in high-priority-only mode, every snipe of a tick after the first
\* starts only after the inter-attempt delay has been executed since the
\* return of the snipe before it.
C15_DelayBetweenChained ==
    ChainTicked =>
        \A i \in 1..Len(tick.events) :
            (/\ tick.events[i].ev = "snipe_enter"
             /\ \E j \in 1..(i - 1) : IsReturn(tick.events[j]))
            => \E k \in 1..(i - 1) :
                  /\ IsChainDelay(tick.events[k])
                  /\ \E j \in 1..(k - 1) :
                        /\ IsReturn(tick.events[j])
                        /\ \A m \in (j + 1)..(i - 1) : ~IsReturn(tick.events[m])

----------------------------------------------------------------------------
(* Claims on the Relocation Protocol and the ledger (checked under Spec).  *)

\* The position an event carries, as a sighting.
PlaceOf(e) == [latitude |-> e.a, longitude |-> e.b]

\* C13: a target for which the protocol runs, on either path, is recorded in
\* the ledger before snipe returns; a tick never ranks, and never runs the
\* protocol for, a sighting whose 4-decimal position is in the ledger the
\* tick starts with; an entry stays matched from tick to tick while the
\* ledger is below its capacity.
C13_SnipedIsSuppressed ==
    [][tick'.op = "work" =>
          /\ \A i \in 1..Len(tick'.events) :
                tick'.events[i].ev = "emit_teleport_to" =>
                   /\ ~is_inspected(caught, PlaceOf(tick'.events[i]))
                   /\ is_inspected(caught', PlaceOf(tick'.events[i]))
                   /\ \E k \in (i + 1)..Len(tick'.events) :
                         /\ tick'.events[k].ev = "inspect"
                         /\ PlaceOf(tick'.events[k]) = PlaceOf(tick'.events[i])
                         /\ \A m \in i..k : ~IsReturn(tick'.events[m])
          /\ \A i \in 1..Len(tick'.pokemon_list) :
                ~is_inspected(caught, tick'.pokemon_list[i])
          /\ Len(caught) < CaughtCap =>
                \A i \in 1..Len(caught) : is_inspected(caught', caught[i])]_vars

\* Pull mode: the Ivysaur at (0, 0.00065), never seen nearby, was sniped on
\* the ABORT path in an earlier tick; the feed offers it again and the tick
\* does not relocate.
C13_Witness ==
    /\ Ticked
    /\ config.snipe /\ ~config.enable_social
    /\ \E k \in 1..Len(tick.in.response.pokemons) :
          /\ tick.in.response.pokemons[k].latitude = 0
          /\ tick.in.response.pokemons[k].longitude = 65
          /\ is_inspected(caught, tick.in.response.pokemons[k])
    /\ ~Has(tick.events, "emit_teleport_to")
    /\ tick.pokemon_list = <<>>

----------------------------------------------------------------------------
(* Claims on the Walking Dispatcher (checked under Spec).                  *)

\* The tick took the direct branch of lines 390-400.
DirectTicked == Ticked /\ Has(tick.events, "emit_move_towards")

\* The walker's step reported arrival: the trainer is at the target.
ArrivedAt(pokemon) == position = <<pokemon.latitude, pokemon.longitude>>

\* C14: on the direct branch the lock is set to the target's species id and
\* the walker is stepped once; if the step reports arrival and the target's
\* distance is within the reachable threshold, the tick emits the encounter
\* notification, releases the lock, records the target in the ledger and
\* returns SUCCESS; if the distance is outside the threshold it returns
\* RUNNING.
C14_DirectWalkEncounter ==
    DirectTicked =>
        LET pokemon == tick.pokemon_list[1]
        IN  /\ Cardinality({i \in 1..Len(tick.events) :
                              tick.events[i].ev = "walker_step"}) = 1
            /\ (ArrivedAt(pokemon) /\ pokemon.dist < MAX_DISTANCE_POKEMON_IS_REACHABLE)
                  => /\ Has(tick.events, "emit_encounter")
                     /\ capture_locked = 0
                     /\ is_inspected(caught, pokemon)
                     /\ tick.result = SUCCESS
            /\ pokemon.dist >= MAX_DISTANCE_POKEMON_IS_REACHABLE
                  => /\ tick.result = RUNNING
                     /\ capture_locked = pokemon.pokemon_id

----------------------------------------------------------------------------
(* Claims on the steps of the Relocation Protocol (checked under Spec).    *)

\* The events of the snipe that returns at r, entry and return included.
RunOf(events, r) == SubSeq(events, EnterOf(events, r), r)

\* The returns of the tick.
Returns(events) == {r \in 1..Len(events) : IsReturn(events[r])}

\* The index of the only event of that name in the run, 0 when there is
\* none or more than one.
IndexOf(run, name) ==
    IF Cardinality({i \in 1..Len(run) : run[i].ev = name}) = 1
    THEN CHOOSE i \in 1..Len(run) : run[i].ev = name
    ELSE 0

\* The run took the CAPTURE path.
Captured(run) == Has(run, "create_encounter")

\* C16: on the CAPTURE path the steps occur in this order: encounter
\* notification, handshake created at the target's position, settle delay,
\* position restored to the BACKUP value, capture completed, target recorded
\* in the ledger; the capture is completed with the trainer at the BACKUP
\* position, and the ledger is not updated before the capture completes.
C16_CaptureOrder ==
    Ticked =>
        \A r \in Returns(tick.events) :
            LET run == RunOf(tick.events, r)
                backup == PlaceOf(run[1])
                notified == IndexOf(run, "emit_encounter")
                created == IndexOf(run, "create_encounter")
                target == IndexOf(run, "emit_teleport_to")
                restored == IndexOf(run, "set_position")
                completed == IndexOf(run, "catch_work")
                recorded == IndexOf(run, "inspect")
            IN  Captured(run) =>
                   /\ 0 < target /\ target < notified /\ notified < created
                   /\ created < restored /\ restored < completed
                   /\ completed < recorded
                   /\ PlaceOf(run[created]) = PlaceOf(run[target])
                   /\ \E d \in (created + 1)..(restored - 1) :
                         run[d].ev = "sleep" /\ run[d].a = config.snipe_sleep_sec
                   /\ PlaceOf(run[restored]) = backup
                   /\ PlaceOf(run[completed]) = backup

\* A tick whose snipe took the CAPTURE path from a backup position that is
\* not the target's.
C16_Witness ==
    /\ Ticked
    /\ \E r \in Returns(tick.events) :
          /\ Captured(RunOf(tick.events, r))
          /\ Has(RunOf(tick.events, r), "catch_work")
          /\ PlaceOf(RunOf(tick.events, r)[1])
               # PlaceOf(RunOf(tick.events, r)[IndexOf(RunOf(tick.events, r),
                                                       "emit_teleport_to")])


\* C17: on every protocol run, CAPTURE path and ABORT path alike, after the
\* position has been set back to the BACKUP value and the settle delay
\* applied, a heartbeat call is made before snipe returns.
C17_RestoreHeartbeat ==
    Ticked =>
        \A r \in Returns(tick.events) :
            LET run == RunOf(tick.events, r)
                restored == IndexOf(run, "set_position")
            IN  /\ 0 < restored
                /\ \E d \in (restored + 1)..Len(run), h \in (restored + 1)..Len(run) :
                      /\ d < h
                      /\ run[d].ev = "sleep" /\ run[d].a = config.snipe_sleep_sec
                      /\ run[h].ev = "heartbeat"


\* The species ids the ranked list gives for the position the run went to.
SpeciesAt(list, place) ==
    {list[i].pokemon_id : i \in {j \in 1..Len(list) :
        list[j].latitude = place.latitude /\ list[j].longitude = place.longitude}}

\* Some wild or catchable sighting of the surroundings has the species id.
SeenNearby(nearby_stuff, id) ==
    \/ \E i \in 1..Len(nearby_stuff.wild_pokemons) :
          nearby_stuff.wild_pokemons[i].pokemon_data.pokemon_id = id
    \/ \E i \in 1..Len(nearby_stuff.catchable_pokemons) :
          nearby_stuff.catchable_pokemons[i].pokemon_id = id

\* C18: in push mode the surroundings are never fetched and every run takes
\* the CAPTURE path; otherwise the surroundings are fetched after the
\* relocation, at the target's position, and the run takes the CAPTURE path
\* if and only if some wild or catchable sighting there has the target's
\* species id, the ABORT path otherwise.
C18_Validate ==
    Ticked =>
        \A r \in Returns(tick.events) :
            LET run == RunOf(tick.events, r)
                relocated == IndexOf(run, "set_position_teleport")
                fetched == IndexOf(run, "get_meta_cell")
            IN  IF config.enable_social
                THEN /\ ~Has(run, "get_meta_cell")
                     /\ Captured(run)
                     /\ ~Has(run, "fail_gone")
                ELSE /\ 0 < relocated /\ relocated < fetched
                     /\ PlaceOf(run[fetched]) = PlaceOf(run[relocated])
                     /\ Captured(run) <=>
                           \E id \in SpeciesAt(tick.pokemon_list, PlaceOf(run[relocated])) :
                               SeenNearby(tick.in.nearby_stuff, id)
                     /\ Captured(run) <=> ~Has(run, "fail_gone")

\* Pull mode: a Venusaur confirmed by a catchable sighting of the
\* surroundings, the wild one being of another species.
C18_Witness ==
    /\ Ticked /\ ~config.enable_social
    /\ \E r \in Returns(tick.events) :
          /\ Captured(RunOf(tick.events, r))
          /\ SpeciesAt(tick.pokemon_list,
                       PlaceOf(RunOf(tick.events, r)[IndexOf(RunOf(tick.events, r),
                                                             "set_position_teleport")]))
               = {3}
    /\ \A i \in 1..Len(tick.in.nearby_stuff.wild_pokemons) :
          tick.in.nearby_stuff.wild_pokemons[i].pokemon_data.pokemon_id # 3

----------------------------------------------------------------------------
(* Runs in pull mode on a feed that can fail as a whole or hold an item    *)
(* that does not parse.                                                    *)

PullConfigs == {c \in Configs : ~c.enable_social /\ c.location = Home}

\* Two sightings that parse and one of a species id outside pokemon_data;
\* nothing nearby, no fort.
PullWorld(cfg) ==
    [sightings |-> {Raw(cfg, 1, 20, 0, 1100000, "MTIz"),
                    Raw(cfg, 2, 0, 65, 1100000, "NDU2"),
                    Raw(cfg, Len(pokemon_data) + 1, 0, 70, 1100000, "MTIz")},
     nearbys |-> {NothingNearby},
     fortlists |-> {<<>>},
     timeouts |-> {{}}]

InitPull ==
    /\ config \in PullConfigs
    /\ world = PullWorld(config)
    /\ base_file \in StartFiles(config)
    /\ data_file = NoFile
    /\ caught = initial_caught(data_file, base_file)
    /\ by_pass_times = 0
    /\ position = config.location
    /\ capture_locked = 0
    /\ mqtt_pokemon_list = <<>>
    /\ tick = NoTick("initialize")
    /\ probe = NoProbe

NextPull == Work \/ Restart

SpecPull == InitPull /\ [][NextPull]_vars

\* The failure notifications of a trace.
Failures(events) ==
    SelectSeq(events, LAMBDA e : e.ev \in {"fail_connection", "fail_json", "fail_parse"})

\* The sighting is in the ranked list.
Ranked(list, p) ==
    \E i \in 1..Len(list) :
        /\ list[i].latitude = p.latitude
        /\ list[i].longitude = p.longitude
        /\ list[i].pokemon_id = p.pokemon_id

\* C19: in pull mode, when the GET raises a connection error or the body is
\* not valid JSON, the filter emits one failure notification and gives an
\* empty list, and the tick returns SUCCESS with no relocation, no walker
\* step, the capture lock and the ledger unchanged; an item that fails to
\* parse is skipped with one notification and every other item of the feed
\* is filtered as if it were not there.
C19_PullFailureNonFatal ==
    [][(GatePassed /\ ~config.enable_social) =>
          LET response == tick'.in.response
              feed == response.pokemons
          IN  IF response.status \in {ConnectionError, ValueError}
              THEN /\ Len(Failures(tick'.events)) = 1
                   /\ tick'.pokemon_list = <<>>
                   /\ tick'.result = SUCCESS
                   /\ \A i \in 1..Len(tick'.events) :
                         /\ ~IsSetPosition(tick'.events[i])
                         /\ tick'.events[i].ev # "walker_step"
                   /\ position' = position
                   /\ capture_locked' = capture_locked
                   /\ caught' = caught
              ELSE /\ Len(Failures(tick'.events))
                        = Cardinality({i \in 1..Len(feed) : ~url_parses(feed[i])})
                   /\ \A i \in 1..Len(feed) :
                         url_parses(feed[i]) =>
                            (Ranked(tick'.pokemon_list, feed[i])
                               <=> url_keeps(config, caught, tick'.in.now,
                                             url_candidate(config, position, feed[i])))]_vars

\* A feed whose first item does not parse and whose second is ranked.
C19_Witness ==
    /\ Ticked /\ ~config.enable_social
    /\ Len(tick.in.response.pokemons) = 2
    /\ ~url_parses(tick.in.response.pokemons[1])
    /\ url_parses(tick.in.response.pokemons[2])
    /\ Ranked(tick.pokemon_list, tick.in.response.pokemons[2])
    /\ Len(Failures(tick.events)) = 1

----------------------------------------------------------------------------
(* The push filter called again and again while the collaborator queues.   *)

\* The most calls of the filter in a run.
MaxCalls == 2

DrainConfigs == {c \in FilterConfigs : c.enable_social /\ c.max_sniping_distance = 1000}

\* A Bulbasaur and an Ivysaur on the allow-list, a Charmander outside it.
DrainSightings(cfg) ==
    {Raw(cfg, 1, 20, 0, 1100000, ""),
     Raw(cfg, 4, 0, 60, 1100000, ""),
     Raw(cfg, 2, 0, 65, 1100000, "")}

InitDrain ==
    /\ config \in DrainConfigs
    /\ world = [MainWorld(config) EXCEPT !.sightings = DrainSightings(config)]
    /\ caught \in {<<>>, <<LedgerEntry(18, 0)>>}
    /\ position = Home
    /\ mqtt_pokemon_list = <<>>
    /\ probe = [fn |-> "drain", calls |-> 0, feed |-> <<>>, out |-> <<>>]
    /\ base_file = NoFile
    /\ data_file = NoFile
    /\ by_pass_times = 0
    /\ capture_locked = 0
    /\ tick = NoTick("probe")

\* Lines 101-152 called once on the buffer as it is.
DrainCall ==
    /\ probe.fn = "drain" /\ probe.calls < MaxCalls
    /\ \E now \in Now :
          probe' = [probe EXCEPT
                      !.calls = @ + 1,
                      !.feed = mqtt_pokemon_list,
                      !.out = get_pokemon_from_social(config, caught, position, now,
                                                      mqtt_pokemon_list)]
    /\ mqtt_pokemon_list' = buffer_after_drain(mqtt_pokemon_list)
    /\ tick' = NoTick("probe")
    /\ UNCHANGED <<config, caught, by_pass_times, position, capture_locked,
                   data_file, base_file, world>>

NextDrain == DrainCall \/ MqttQueue

SpecDrain == InitDrain /\ [][NextDrain]_vars

\* The buffered sighting passes the tests of the push filter.
Accepted(p) ==
    social_keeps(config, caught, CHOOSE now \in Now : TRUE,
                 social_candidate(config, position, p))

\* C20: a call of the push filter takes the whole buffer and leaves it
\* empty; the list returned holds the accepted sightings of the buffer, each
\* once, in feed order; a call on a buffer that nothing was queued into
\* since the call before returns nothing.
C20_PushDrain ==
    [][(probe.fn = "drain" /\ probe'.calls = probe.calls + 1) =>
          LET buffer == mqtt_pokemon_list
              out == probe'.out
              kept == {k \in 1..Len(buffer) : Accepted(buffer[k])}
          IN  /\ mqtt_pokemon_list' = <<>>
              /\ Len(out) = Cardinality(kept)
              /\ \E f \in [1..Len(out) -> kept] :
                    /\ \A i, j \in 1..Len(out) : i < j => f[i] < f[j]
                    /\ \A i \in 1..Len(out) :
                          /\ out[i].latitude = buffer[f[i]].latitude
                          /\ out[i].longitude = buffer[f[i]].longitude
                          /\ out[i].pokemon_id = buffer[f[i]].pokemon_id
              /\ buffer = <<>> => out = <<>>]_vars

\* A call that took a buffer of two accepted sightings: both are returned
\* and the buffer is empty.
C20_Witness ==
    /\ probe.fn = "drain"
    /\ probe.calls >= 1
    /\ tick.op = "probe"
    /\ Len(probe.feed) = 2
    /\ Len(probe.out) = 2
    /\ probe.feed[1] # probe.feed[2]
    /\ mqtt_pokemon_list = <<>>

----------------------------------------------------------------------------
(* Claims on the result of a tick and on the capture lock (checked under   *)
(* Spec).                                                                  *)

\* C21: every call of work() returns SUCCESS or RUNNING, on every path
\* through the tick: the inventory gate, a skipped round, an empty list, a
\* snipe, a direct walk with or without arrival, a walk via a waypoint with
\* or without the step completing.
C21_TickReturnsResult == Ticked => tick.result \in {SUCCESS, RUNNING}

----------------------------------------------------------------------------
(* Runs of the walking mode on the pull feed, the scheduler calling work() *)
(* again and again.                                                        *)

WalkConfigs == {c \in Configs : ~c.enable_social /\ ~c.snipe}

\* A Bulbasaur within one step, an Ivysaur beyond the reachable threshold;
\* no fort.
WalkWorld(cfg) ==
    [sightings |-> {Raw(cfg, 1, 20, 0, 1100000, "MTIz"),
                    Raw(cfg, 2, 0, 65, 1100000, "NDU2")},
     nearbys |-> {NothingNearby},
     fortlists |-> {<<>>},
     timeouts |-> {{}}]

InitWalk ==
    /\ config \in WalkConfigs
    /\ world = WalkWorld(config)
    /\ base_file = NoFile
    /\ data_file = NoFile
    /\ caught = initial_caught(data_file, base_file)
    /\ by_pass_times = 0
    /\ position = config.location
    /\ capture_locked = 0
    /\ mqtt_pokemon_list = <<>>
    /\ tick = NoTick("initialize")
    /\ probe = NoProbe

SpecWalk == InitWalk /\ [][NextPull]_vars /\ WF_vars(Work)

\* The tick did not take the direct branch: it pursued no direct-walk target.
NotPursuing == Ticked /\ ~Has(tick.events, "emit_move_towards")

\* C22: the capture lock does not stay held forever: once a tick that no
\* longer pursues the direct-walk target has run with the lock held, the
\* lock is eventually released.
C22_LockEventuallyReleased ==
    (NotPursuing /\ capture_locked # 0) ~> (capture_locked = 0)

----------------------------------------------------------------------------
(* Claims on duplicate attempts (checked under SpecChain).                 *)

\* The two positions agree to 4 decimals.
SameRounded(p, q) ==
    /\ Fmt4(p.latitude) = Fmt4(q.latitude)
    /\ Fmt4(p.longitude) = Fmt4(q.longitude)

\* C23: the Relocation Protocol is never run twice for targets whose
\* positions agree to 4 decimals while the ledger entry of the first run is
\* present: not in a later tick, and not within one chained tick of the
\* high-priority-only mode for two sightings of the same feed snapshot.
C23_NoDuplicateAttempts ==
    [][tick'.op = "work" =>
          LET sniped == Teleports(tick'.events)
          IN  /\ \A i \in 1..Len(sniped), e \in 1..Len(caught) :
                    ~SameRounded(PlaceOf(sniped[i]), caught[e])
              /\ \A i, j \in 1..Len(sniped) :
                    i < j => ~SameRounded(PlaceOf(sniped[i]), PlaceOf(sniped[j]))]_vars

====
